---- MODULE Spec2Model ----
\* A model of binit (src/main.go, lines 1-286): composition of an environment
\* from command-line assignments, the ambient environment, import specs and
\* INI files, its serialisation, and the dispatch to the target program.
\*
\* A Go string is a sequence of one-character strings, so that splitting,
\* joining, quoting and sorting are computed and not assumed.
EXTENDS Integers, Sequences, FiniteSets, TLC

VARIABLES
    assigned,     \* -e values, in command-line order (main.go:88,101)
    imports,      \* -m values, in command-line order (main.go:97,100)
    inputs,       \* -f values, in command-line order (main.go:98,102)
    clean,        \* -i (main.go:96)
    configLast,   \* -L (main.go:93)
    dropRepeats,  \* -n, after main.go:106-108
    keepFirst,    \* -N (main.go:91)
    sep,          \* -s, after main.go:110-124
    current,      \* parseEnv(os.Environ()) (main.go:129)
    values,       \* the accumulator (main.go:126)
    pc,           \* position of main
    impIdx,       \* position of the loop of copyImports (main.go:207)
    fileIdx,      \* position of the loop over inputs (main.go:152)
    stdinRead,    \* standard input has been read to its end
    env,          \* the serialised list (main.go:160-161)
    argv,         \* flag.Args() (main.go:163)
    calls,        \* the calls made to exec.LookPath and syscall.Exec
    stdout,       \* lines written to standard output
    diag,         \* messages written by log
    exitCode,     \* exit status, -1 while the process has none
    splat,        \* wildcard matcher: the pattern given to compileWildcard
    cand,         \* wildcard matcher: the candidate string
    matched       \* wildcard matcher: "yes" or "no" from MatchString, "none" before the call

mainVars == <<assigned, imports, inputs, clean, configLast, dropRepeats, keepFirst,
              sep, current, values, pc, impIdx, fileIdx, stdinRead, env, argv,
              calls, stdout, diag, exitCode>>
wildVars == <<splat, cand, matched>>
vars == <<mainVars, wildVars>>

\* ---------------------------------------------------------------------------
\* Bounds

MaxFlags == 3
MaxPatLen == 3
MaxCandLen == 3

\* ---------------------------------------------------------------------------
\* Strings

BS == "\\"
NL == "\n"
TAB == "\t"
DQ == "\""
\* The back quote and the apostrophe, which a TLA+ string cannot hold.
BQ == "bq"
SQ == "sq"

\* Byte value of the characters the model uses (the order sort.Strings compares by).
Code(c) ==
    CASE c = TAB -> 9
      [] c = NL -> 10
      [] c = " " -> 32
      [] c = "*" -> 42
      [] c = "," -> 44
      [] c = "." -> 46
      [] c = "0" -> 48
      [] c = "1" -> 49
      [] c = "2" -> 50
      [] c = "4" -> 52
      [] c = "5" -> 53
      [] c = "=" -> 61
      [] c = "?" -> 63
      [] c = "X" -> 88
      [] c = "Y" -> 89
      [] c = BS -> 92
      [] c = "a" -> 97
      [] OTHER -> 126

\* s < t as Go compares strings: bytewise, a proper prefix first.
RECURSIVE StrLess(_, _)
StrLess(s, t) ==
    IF t = <<>> THEN FALSE
    ELSE IF s = <<>> THEN TRUE
    ELSE IF Head(s) = Head(t) THEN StrLess(Tail(s), Tail(t))
    ELSE Code(Head(s)) < Code(Head(t))

\* strings.IndexByte(s, c), 0-based, -1 when absent.
RECURSIVE IndexFrom(_, _, _)
IndexFrom(s, c, i) ==
    IF i > Len(s) THEN -1
    ELSE IF s[i] = c THEN i - 1
    ELSE IndexFrom(s, c, i + 1)

IndexByte(s, c) == IndexFrom(s, c, 1)

\* strings.ContainsAny(s, chars)
ContainsAny(s, chars) == \E i \in 1..Len(s) : s[i] \in chars

\* strings.Join(v, sep)
RECURSIVE Join(_, _)
Join(v, s) ==
    IF v = <<>> THEN <<>>
    ELSE IF Len(v) = 1 THEN v[1]
    ELSE v[1] \o s \o Join(Tail(v), s)

\* All sequences over S of length at most n.
SeqsUpTo(S, n) == UNION {[1..k -> S] : k \in 0..n}

\* The orders in which a Go map with key set S may be ranged over.
Orders(S) == {o \in [1..Cardinality(S) -> S] : \A i, j \in DOMAIN o : o[i] = o[j] => i = j}

\* ---------------------------------------------------------------------------
\* Wildcard matcher (main.go:45-80) and the part of package regexp it uses

\* The characters regexp.QuoteMeta escapes.
RegexSpecial == {BS, ".", "+", "*", "?", "(", ")", "|", "[", "]", "{", "}", "^", "$"}

RECURSIVE QuoteMeta(_)
QuoteMeta(s) ==
    IF s = <<>> THEN <<>>
    ELSE (IF Head(s) \in RegexSpecial THEN <<BS, Head(s)>> ELSE <<Head(s)>>)
         \o QuoteMeta(Tail(s))

\* The loop of compileWildcard from rune i on, with the buffer b written so far.
RECURSIVE cwLoop(_, _, _, _)
cwLoop(s, i, escape, b) ==
    IF i > Len(s)
    THEN b \o (IF escape THEN <<BS, BS>> ELSE <<>>) \o <<"$">>
    ELSE LET r == s[i] IN
         IF r = BS THEN cwLoop(s, i + 1, TRUE, b)
         ELSE IF escape THEN cwLoop(s, i + 1, FALSE, b \o QuoteMeta(<<r>>))
         ELSE IF r = "*" THEN cwLoop(s, i + 1, FALSE, b \o <<".", "*">>)
         ELSE IF r = "?" THEN cwLoop(s, i + 1, FALSE, b \o <<".">>)
         ELSE cwLoop(s, i + 1, FALSE, b \o QuoteMeta(<<r>>))

\* The regular expression text compileWildcard hands to regexp.Compile.
wildcardPattern(s) == cwLoop(s, 1, FALSE, <<"^">>)

\* regexp.Compile for the syntax the patterns above are written in: ^, $, an
\* escaped character, ".", a literal, each possibly followed by "*". The result
\* is the sequence of items, or <<"error">> where Compile returns an error.
RECURSIVE reParse(_, _, _)
reParse(p, i, items) ==
    IF i > Len(p) THEN [err |-> FALSE, items |-> items]
    ELSE LET c == p[i]
             atom == IF c = BS
                     THEN (IF i + 1 > Len(p) THEN [kind |-> "bad", ch |-> "", len |-> 1]
                           ELSE [kind |-> "lit", ch |-> p[i + 1], len |-> 2])
                     ELSE IF c = "." THEN [kind |-> "any", ch |-> "", len |-> 1]
                     ELSE IF c = "^" THEN [kind |-> "bol", ch |-> "", len |-> 1]
                     ELSE IF c = "$" THEN [kind |-> "eol", ch |-> "", len |-> 1]
                     ELSE IF c \in {"*", "+", "?", "(", ")", "[", "{", "|"}
                     THEN [kind |-> "bad", ch |-> "", len |-> 1]
                     ELSE [kind |-> "lit", ch |-> c, len |-> 1]
             j == i + atom.len
             star == j <= Len(p) /\ p[j] = "*"
         IN  IF atom.kind = "bad" THEN [err |-> TRUE, items |-> <<>>]
             ELSE reParse(p, IF star THEN j + 1 ELSE j,
                          Append(items, [kind |-> atom.kind, ch |-> atom.ch, star |-> star]))

regexpCompile(p) == reParse(p, 1, <<>>)

\* One item against one character: without the s flag "." excludes newline.
itemTakes(it, c) ==
    CASE it.kind = "lit" -> c = it.ch
      [] it.kind = "any" -> c # NL
      [] OTHER -> FALSE

\* Without the m flag ^ and $ hold at the ends of the text only.
itemHoldsAt(it, s, j) ==
    CASE it.kind = "bol" -> j = 1
      [] it.kind = "eol" -> j = Len(s) + 1
      [] OTHER -> FALSE

\* The items from i on match s from position j on (up to any later position).
RECURSIVE matchAt(_, _, _, _)
matchAt(items, i, s, j) ==
    IF i > Len(items) THEN TRUE
    ELSE LET it == items[i] IN
         IF it.kind \in {"bol", "eol"}
         THEN (it.star \/ itemHoldsAt(it, s, j)) /\ matchAt(items, i + 1, s, j)
         ELSE IF it.star
         THEN \/ matchAt(items, i + 1, s, j)
              \/ j <= Len(s) /\ itemTakes(it, s[j]) /\ matchAt(items, i, s, j + 1)
         ELSE j <= Len(s) /\ itemTakes(it, s[j]) /\ matchAt(items, i + 1, s, j + 1)

\* (*regexp.Regexp).MatchString: the expression matches somewhere in s.
MatchString(re, s) == \E j \in 1..(Len(s) + 1) : matchAt(re.items, 1, s, j)

compileWildcard(s) == regexpCompile(wildcardPattern(s))

\* ---------------------------------------------------------------------------
\* Maps

EmptyMap == [k \in {} |-> <<>>]

\* m[k] = v
Put(m, k, v) == [x \in (DOMAIN m) \cup {k} |-> IF x = k THEN v ELSE m[x]]

\* m[k] of a map of slices: the nil slice when k is absent.
Get(m, k) == IF k \in DOMAIN m THEN m[k] ELSE <<>>

\* ---------------------------------------------------------------------------
\* Separator decoding (main.go:110-124) and the part of strconv.Unquote it uses

\* strings.Replace(s, `"`, `\"`, -1)
RECURSIVE escapeQuotes(_)
escapeQuotes(s) ==
    IF s = <<>> THEN <<>>
    ELSE (IF Head(s) = DQ THEN <<BS, DQ>> ELSE <<Head(s)>>) \o escapeQuotes(Tail(s))

\* The body of a double-quoted Go string from position i on: the decoded text,
\* or <<"error">> for a bare quote, a newline or an escape strconv rejects.
RECURSIVE unquoteBody(_, _, _)
unquoteBody(b, i, out) ==
    IF i > Len(b) THEN [err |-> FALSE, str |-> out]
    ELSE IF b[i] \in {DQ, NL} THEN [err |-> TRUE, str |-> <<>>]
    ELSE IF b[i] # BS THEN unquoteBody(b, i + 1, Append(out, b[i]))
    ELSE IF i + 1 > Len(b) THEN [err |-> TRUE, str |-> <<>>]
    ELSE LET e == b[i + 1] IN
         IF e = "t" THEN unquoteBody(b, i + 2, Append(out, TAB))
         ELSE IF e = "n" THEN unquoteBody(b, i + 2, Append(out, NL))
         ELSE IF e \in {BS, DQ} THEN unquoteBody(b, i + 2, Append(out, e))
         ELSE [err |-> TRUE, str |-> <<>>]

\* strconv.Unquote: a double-quoted string, a back-quoted raw string or a
\* single-quoted character.
Unquote(s) ==
    IF Len(s) < 2 \/ s[1] # s[Len(s)] THEN [err |-> TRUE, str |-> <<>>]
    ELSE LET body == SubSeq(s, 2, Len(s) - 1) IN
         IF s[1] = DQ THEN unquoteBody(body, 1, <<>>)
         ELSE IF s[1] = BQ
         THEN (IF \E i \in 1..Len(body) : body[i] = BQ
               THEN [err |-> TRUE, str |-> <<>>]
               ELSE [err |-> FALSE, str |-> body])
         ELSE IF s[1] = SQ
         THEN (IF Len(body) = 1 /\ body[1] \notin {SQ, BS, NL}
               THEN [err |-> FALSE, str |-> body]
               ELSE [err |-> TRUE, str |-> <<>>])
         ELSE [err |-> TRUE, str |-> <<>>]

\* The result of decoding the -s value.
unquoteSep(s) ==
    IF Len(s) = 0 THEN [err |-> FALSE, str |-> s]
    ELSE IF s[1] \in {BQ, SQ, DQ} THEN Unquote(s)
    ELSE Unquote(<<DQ>> \o escapeQuotes(s) \o <<DQ>>)

\* ---------------------------------------------------------------------------
\* Accumulation (main.go:206-252)

RECURSIVE parseEnvLoop(_, _, _)
parseEnvLoop(environ, i, m) ==
    IF i > Len(environ) THEN m
    ELSE LET pair == environ[i]
             idx == IndexByte(pair, "=")
         IN  IF idx = -1
             THEN parseEnvLoop(environ, i + 1, Put(m, pair, <<>>))
             ELSE parseEnvLoop(environ, i + 1,
                               Put(m, SubSeq(pair, 1, idx), SubSeq(pair, idx + 2, Len(pair))))

parseEnv(environ) == parseEnvLoop(environ, 1, EmptyMap)

\* copyValues putting the new value in front of those a key holds.
RECURSIVE copyValues_prepend(_, _, _)
copyValues_prepend(dst, src, ord) ==
    IF ord = <<>> THEN dst
    ELSE LET k == Head(ord) IN
         copyValues_prepend(Put(dst, k, <<src[k]>> \o Get(dst, k)), src, Tail(ord))

\* copyValues ranging over src in the order ord.
RECURSIVE copyValues(_, _, _)
copyValues(dst, src, ord) ==
    IF ord = <<>> THEN dst
    ELSE LET k == Head(ord) IN
         copyValues(Put(dst, k, Append(Get(dst, k), src[k])), src, Tail(ord))

copyLiteral(dst, src, name) ==
    IF name \in DOMAIN src THEN Put(dst, name, Append(Get(dst, name), src[name])) ELSE dst

\* The range loop without the test for a key already present.
RECURSIVE copyMatching_overwrite(_, _, _, _)
copyMatching_overwrite(dst, src, pat, ord) ==
    IF ord = <<>> THEN dst
    ELSE LET k == Head(ord) IN
         IF ~MatchString(pat, k)
         THEN copyMatching_overwrite(dst, src, pat, Tail(ord))
         ELSE copyMatching_overwrite(Put(dst, k, <<src[k]>>), src, pat, Tail(ord))

\* The range loop of copyImports (main.go:220-225) over src in the order ord.
RECURSIVE copyMatching(_, _, _, _)
copyMatching(dst, src, pat, ord) ==
    IF ord = <<>> THEN dst
    ELSE LET k == Head(ord) IN
         IF k \in DOMAIN dst \/ ~MatchString(pat, k)
         THEN copyMatching(dst, src, pat, Tail(ord))
         ELSE copyMatching(Put(dst, k, <<src[k]>>), src, pat, Tail(ord))

\* One iteration of the loop of copyImports, for the import spec m:
\* the accumulator and the message logged, if any.
copyImport(dst, src, m, ord) ==
    IF ~ContainsAny(m, {"*", "?"})
    THEN [dst |-> copyLiteral(dst, src, m), log |-> <<>>]
    ELSE LET pat == compileWildcard(m) IN
         IF pat.err
         THEN [dst |-> copyLiteral(dst, src, m), log |-> <<<<"pattern", m>>>>]
         ELSE [dst |-> copyMatching(dst, src, pat, ord), log |-> <<>>]

\* ---------------------------------------------------------------------------
\* Config files (main.go:267-286)

\* What the files hold, as ioutil.ReadFile and the INI decoder see them:
\* whether the read succeeds, the key/value pairs the decoder records in order,
\* and whether it then stops with a parse error.
FileSystem(path) ==
    CASE path = "a.ini" -> [readErr |-> FALSE, pairs |-> <<<< <<"X">>, <<"2">> >>>>, parseErr |-> FALSE]
      [] path = "bad.ini" -> [readErr |-> TRUE, pairs |-> <<>>, parseErr |-> FALSE]
      [] OTHER -> [readErr |-> TRUE, pairs |-> <<>>, parseErr |-> FALSE]

\* Standard input: one pair, then a line the decoder rejects.
StdinContent == [readErr |-> FALSE, pairs |-> <<<< <<"Y">>, <<"4">> >>>>, parseErr |-> TRUE]

\* ioutil.ReadAll(os.Stdin) once standard input is at its end.
StdinAtEOF == [readErr |-> FALSE, pairs |-> <<>>, parseErr |-> FALSE]

\* ini.Values(dst): every pair the decoder records is appended under its key.
RECURSIVE iniRecord(_, _)
iniRecord(dst, pairs) ==
    IF pairs = <<>> THEN dst
    ELSE LET k == Head(pairs)[1]
             v == Head(pairs)[2]
         IN  iniRecord(Put(dst, k, Append(Get(dst, k), v)), Tail(pairs))

\* importConfigFile losing the accumulator when the read fails.
importConfigFile_reset(dst, path, file) ==
    IF file.readErr THEN [dst |-> EmptyMap, log |-> <<<<"read", path>>>>]
    ELSE [dst |-> iniRecord(dst, file.pairs),
          log |-> IF file.parseErr THEN <<<<"parse", path>>>> ELSE <<>>]

\* importConfigFile: the accumulator and the messages logged.
importConfigFile(dst, path, file) ==
    IF file.readErr THEN [dst |-> dst, log |-> <<<<"read", path>>>>]
    ELSE [dst |-> iniRecord(dst, file.pairs),
          log |-> IF file.parseErr THEN <<<<"parse", path>>>> ELSE <<>>]

\* ---------------------------------------------------------------------------
\* Serialisation (main.go:160-161, 188-204)

\* compileEnv with the kept index taken the other way round.
RECURSIVE compileEnv_swapped(_, _, _, _, _)
compileEnv_swapped(src, ord, dr, kf, s) ==
    IF ord = <<>> THEN <<>>
    ELSE LET k == Head(ord)
             v == src[k]
             keptIndex == IF kf THEN Len(v) - 1 ELSE 0
             pair == IF dr THEN k \o <<"=">> \o v[keptIndex + 1]
                     ELSE k \o <<"=">> \o Join(v, s)
         IN  <<pair>> \o compileEnv_swapped(src, Tail(ord), dr, kf, s)

\* compileEnv ranging over src in the order ord.
RECURSIVE compileEnv(_, _, _, _, _)
compileEnv(src, ord, dr, kf, s) ==
    IF ord = <<>> THEN <<>>
    ELSE LET k == Head(ord)
             v == src[k]
             keptIndex == IF ~kf THEN Len(v) - 1 ELSE 0
             pair == IF dr THEN k \o <<"=">> \o v[keptIndex + 1]
                     ELSE k \o <<"=">> \o Join(v, s)
         IN  <<pair>> \o compileEnv(src, Tail(ord), dr, kf, s)

\* x placed into the sorted list l.
RECURSIVE insertSorted(_, _)
insertSorted(l, x) ==
    IF l = <<>> THEN <<x>>
    ELSE IF StrLess(x, Head(l)) THEN <<x>> \o l
    ELSE <<Head(l)>> \o insertSorted(Tail(l), x)

\* The list left as compileEnv returned it.
sortStrings_none(l) == l

\* sort.Strings
RECURSIVE sortStrings(_)
sortStrings(l) ==
    IF l = <<>> THEN <<>>
    ELSE insertSorted(sortStrings(Tail(l)), Head(l))

\* ---------------------------------------------------------------------------
\* Inputs

\* -e values
AssignPool == { <<"X", "=", "1">>, <<"X", "=", "2">> }

\* -m values: a literal name and a wildcard
ImportPool == { <<"X">>, <<"X", "*">> }

\* -f values: a readable file, an unreadable one, standard input
PathPool == {"a.ini", "bad.ini", "-"}

\* os.Environ(): without and with the variable X; Y is a bare name
EnvChoices == { << <<"X", "Y", "=", "5">>, <<"Y">> >>,
                << <<"X", "=", "0">>, <<"X", "Y", "=", "5">>, <<"Y">> >> }

\* -s values: a comma, and the escape of a tab
SepChoices == { <<",">>, <<BS, "t">> }

\* the positional arguments, when there are any
ArgvChoices == { <<"sh">> }

\* ---------------------------------------------------------------------------
\* main (main.go:84-186)

\* The wholesale copy decided by -i alone.
copyCurrent_cleanOnly == ~clean

\* main.go:133
copyCurrent == ~clean /\ Len(imports) = 0

\* Where main goes on at the start of the given stage of main.go:143-158:
\* the environment merge comes first unless -L is set, and an empty list of
\* inputs runs no iteration.
stageStart(stage) ==
    IF stage > 2 THEN "compile"
    ELSE IF (stage = 1) = (~configLast) THEN "assigned"
    ELSE IF inputs # <<>> THEN "files"
    ELSE IF stage = 1 THEN "assigned"
    ELSE "compile"

envStage == IF configLast THEN 2 ELSE 1
fileStage == IF configLast THEN 1 ELSE 2

\* The state after flag.Parse and main.go:106-129.
Init ==
    /\ \E a \in SeqsUpTo(AssignPool, MaxFlags) :
         \E m \in SeqsUpTo(ImportPool, MaxFlags - Len(a)) :
           \E f \in SeqsUpTo(PathPool, MaxFlags - Len(a) - Len(m)) :
             /\ assigned = a
             /\ imports = m
             /\ inputs = f
    /\ clean \in BOOLEAN
    /\ configLast \in BOOLEAN
    /\ keepFirst \in BOOLEAN
    /\ \E n \in BOOLEAN : dropRepeats = (n \/ keepFirst)
    /\ \E s \in SepChoices :
         LET u == unquoteSep(s) IN
         /\ sep = IF u.err THEN s ELSE u.str
         /\ diag = IF u.err THEN <<<<"separator", s>>>> ELSE <<>>
    /\ \E e \in EnvChoices : current = parseEnv(e)
    /\ values = EmptyMap
    /\ pc = stageStart(1)
    /\ impIdx = 1
    /\ fileIdx = 1
    /\ stdinRead = FALSE
    /\ env = <<>>
    /\ argv = <<>>
    /\ calls = <<>>
    /\ stdout = <<>>
    /\ exitCode = -1
    /\ splat = <<>>
    /\ cand = <<>>
    /\ matched = "none"

\* main.go:135
MergeAssigned ==
    /\ pc = "assigned"
    /\ LET src == parseEnv(assigned) IN
       \E ord \in Orders(DOMAIN src) : values' = copyValues(values, src, ord)
    /\ impIdx' = 1
    /\ pc' = IF copyCurrent \/ imports # <<>> THEN "ambient" ELSE stageStart(envStage + 1)
    /\ UNCHANGED <<assigned, imports, inputs, clean, configLast, dropRepeats, keepFirst,
                   sep, current, fileIdx, stdinRead, env, argv, calls, stdout, diag,
                   exitCode, wildVars>>

\* main.go:136-137
CopyCurrent ==
    /\ pc = "ambient"
    /\ copyCurrent
    /\ \E ord \in Orders(DOMAIN current) : values' = copyValues(values, current, ord)
    /\ pc' = stageStart(envStage + 1)
    /\ UNCHANGED <<assigned, imports, inputs, clean, configLast, dropRepeats, keepFirst,
                   sep, current, impIdx, fileIdx, stdinRead, env, argv, calls, stdout,
                   diag, exitCode, wildVars>>

\* main.go:138-139: one iteration of the loop of copyImports
CopyImports ==
    /\ pc = "ambient"
    /\ ~copyCurrent
    /\ impIdx <= Len(imports)
    /\ \E ord \in Orders(DOMAIN current) :
         LET r == copyImport(values, current, imports[impIdx], ord) IN
         /\ values' = r.dst
         /\ diag' = diag \o r.log
    /\ impIdx' = impIdx + 1
    /\ pc' = IF impIdx = Len(imports) THEN stageStart(envStage + 1) ELSE "ambient"
    /\ UNCHANGED <<assigned, imports, inputs, clean, configLast, dropRepeats, keepFirst,
                   sep, current, fileIdx, stdinRead, env, argv, calls, stdout,
                   exitCode, wildVars>>

\* main.go:152-154: one iteration of the loop over inputs
ImportConfigFile ==
    /\ pc = "files"
    /\ fileIdx <= Len(inputs)
    /\ LET path == inputs[fileIdx]
           file == IF path = "-"
                   THEN (IF stdinRead THEN StdinAtEOF ELSE StdinContent)
                   ELSE FileSystem(path)
           r == importConfigFile(values, path, file)
       IN  /\ values' = r.dst
           /\ diag' = diag \o r.log
           /\ stdinRead' = (stdinRead \/ path = "-")
    /\ fileIdx' = fileIdx + 1
    /\ pc' = IF fileIdx = Len(inputs) THEN stageStart(fileStage + 1) ELSE "files"
    /\ UNCHANGED <<assigned, imports, inputs, clean, configLast, dropRepeats, keepFirst,
                   sep, current, impIdx, env, argv, calls, stdout, exitCode, wildVars>>

\* main.go:160-161
CompileEnv ==
    /\ pc = "compile"
    /\ \E ord \in Orders(DOMAIN values) :
         env' = sortStrings(compileEnv(values, ord, dropRepeats, keepFirst, sep))
    /\ pc' = "dispatch"
    /\ UNCHANGED <<assigned, imports, inputs, clean, configLast, dropRepeats, keepFirst,
                   sep, current, values, impIdx, fileIdx, stdinRead, argv, calls, stdout,
                   diag, exitCode, wildVars>>

\* main.go:163-169: no positional arguments
PrintEnv ==
    /\ pc = "dispatch"
    /\ argv' = <<>>
    /\ stdout' = stdout \o env
    /\ exitCode' = 0
    /\ pc' = "exit"
    /\ UNCHANGED <<assigned, imports, inputs, clean, configLast, dropRepeats, keepFirst,
                   sep, current, values, impIdx, fileIdx, stdinRead, env, calls, diag,
                   wildVars>>

\* A failed lookup reported with the status of a failed replacement.
LookPathFails_126 ==
    /\ pc = "dispatch"
    /\ \E a \in ArgvChoices : argv' = a
    /\ calls' = Append(calls, "LookPath")
    /\ diag' = Append(diag, <<"lookpath">>)
    /\ exitCode' = 126
    /\ pc' = "exit"
    /\ UNCHANGED <<assigned, imports, inputs, clean, configLast, dropRepeats, keepFirst,
                   sep, current, values, impIdx, fileIdx, stdinRead, env, stdout, wildVars>>

\* main.go:171-175: exec.LookPath returns an error
LookPathFails ==
    /\ pc = "dispatch"
    /\ \E a \in ArgvChoices : argv' = a
    /\ calls' = Append(calls, "LookPath")
    /\ diag' = Append(diag, <<"lookpath">>)
    /\ exitCode' = 127
    /\ pc' = "exit"
    /\ UNCHANGED <<assigned, imports, inputs, clean, configLast, dropRepeats, keepFirst,
                   sep, current, values, impIdx, fileIdx, stdinRead, env, stdout, wildVars>>

\* main.go:171-177: exec.LookPath finds the program
LookPathFinds ==
    /\ pc = "dispatch"
    /\ \E a \in ArgvChoices : argv' = [a EXCEPT ![1] = "/bin/" \o a[1]]
    /\ calls' = Append(calls, "LookPath")
    /\ pc' = "exec"
    /\ UNCHANGED <<assigned, imports, inputs, clean, configLast, dropRepeats, keepFirst,
                   sep, current, values, impIdx, fileIdx, stdinRead, env, stdout, diag,
                   exitCode, wildVars>>

\* main.go:179: syscall.Exec replaces the process image and does not return
ExecReplaces ==
    /\ pc = "exec"
    /\ calls' = Append(calls, "Exec")
    /\ pc' = "replaced"
    /\ UNCHANGED <<assigned, imports, inputs, clean, configLast, dropRepeats, keepFirst,
                   sep, current, values, impIdx, fileIdx, stdinRead, env, argv, stdout,
                   diag, exitCode, wildVars>>

\* main.go:179-182: syscall.Exec returns an error
ExecFails ==
    /\ pc = "exec"
    /\ calls' = Append(calls, "Exec")
    /\ diag' = Append(diag, <<"exec", argv[1]>>)
    /\ exitCode' = 126
    /\ pc' = "exit"
    /\ UNCHANGED <<assigned, imports, inputs, clean, configLast, dropRepeats, keepFirst,
                   sep, current, values, impIdx, fileIdx, stdinRead, env, argv, stdout,
                   wildVars>>

\* main.go:179-185: syscall.Exec returns nil, the case main.go:184 provides for
ExecReturns ==
    /\ pc = "exec"
    /\ calls' = Append(calls, "Exec")
    /\ diag' = Append(diag, <<"running">>)
    /\ exitCode' = 1
    /\ pc' = "exit"
    /\ UNCHANGED <<assigned, imports, inputs, clean, configLast, dropRepeats, keepFirst,
                   sep, current, values, impIdx, fileIdx, stdinRead, env, argv, stdout,
                   wildVars>>

Next ==
    \/ MergeAssigned
    \/ CopyCurrent
    \/ CopyImports
    \/ ImportConfigFile
    \/ CompileEnv
    \/ PrintEnv
    \/ LookPathFails
    \/ LookPathFinds
    \/ ExecReplaces
    \/ ExecFails
    \/ ExecReturns

Spec == Init /\ [][Next]_vars

\* ---------------------------------------------------------------------------
\* The wildcard matcher on its own: a pattern and a candidate, and the
\* test of main.go:213,221 applied to them.

Sigma == {"a", ".", "*", "?", BS, NL}

InitWild ==
    /\ splat \in SeqsUpTo(Sigma, MaxPatLen)
    /\ cand \in SeqsUpTo(Sigma, MaxCandLen)
    /\ matched = "none"
    /\ assigned = <<>>
    /\ imports = <<>>
    /\ inputs = <<>>
    /\ clean = FALSE
    /\ configLast = FALSE
    /\ dropRepeats = FALSE
    /\ keepFirst = FALSE
    /\ sep = <<" ">>
    /\ current = EmptyMap
    /\ values = EmptyMap
    /\ pc = "match"
    /\ impIdx = 1
    /\ fileIdx = 1
    /\ stdinRead = FALSE
    /\ env = <<>>
    /\ argv = <<>>
    /\ calls = <<>>
    /\ stdout = <<>>
    /\ diag = <<>>
    /\ exitCode = -1

\* main.go:213 and 221: compileWildcard(m), then pat.MatchString(k)
WildMatch ==
    /\ pc = "match"
    /\ matched = "none"
    /\ LET pat == compileWildcard(splat) IN
       matched' = IF pat.err THEN "error"
                  ELSE IF MatchString(pat, cand) THEN "yes" ELSE "no"
    /\ UNCHANGED <<mainVars, splat, cand>>

NextWild == WildMatch

SpecWild == InitWild /\ [][NextWild]_vars

\* ---------------------------------------------------------------------------
\* Properties

\* The whole of s matches the pattern p under the rules of the wildcard
\* syntax: a backslash makes the next character literal, a last backslash
\* stands for itself, * is any run of characters, ? is any one character.
RECURSIVE RefMatch(_, _)
RefMatch(p, s) ==
    IF p = <<>> THEN s = <<>>
    ELSE IF Head(p) = BS
    THEN (IF Len(p) = 1 THEN s = <<BS>>
          ELSE s # <<>> /\ Head(s) = p[2] /\ RefMatch(SubSeq(p, 3, Len(p)), Tail(s)))
    ELSE IF Head(p) = "*"
    THEN RefMatch(Tail(p), s) \/ (s # <<>> /\ RefMatch(p, Tail(s)))
    ELSE IF Head(p) = "?"
    THEN s # <<>> /\ RefMatch(Tail(p), Tail(s))
    ELSE s # <<>> /\ Head(s) = Head(p) /\ RefMatch(Tail(p), Tail(s))

\* The name and the value a NAME=VALUE argument stands for.
KeyOf(pair) ==
    LET i == IndexByte(pair, "=") IN IF i = -1 THEN pair ELSE SubSeq(pair, 1, i)

ValOf(pair) ==
    LET i == IndexByte(pair, "=") IN IF i = -1 THEN <<>> ELSE SubSeq(pair, i + 2, Len(pair))

\* The values assigned to K with -e, in command-line order.
AssignedFor(K) ==
    LET sel == SelectSeq(assigned, LAMBDA q : KeyOf(q) = K)
    IN  [i \in 1..Len(sel) |-> ValOf(sel[i])]

AssignedKeys == {KeyOf(assigned[i]) : i \in 1..Len(assigned)}

\* What the i-th -f input yields when it is read.
Yield(i) ==
    IF inputs[i] = "-"
    THEN (IF \E j \in 1..(i - 1) : inputs[j] = "-" THEN StdinAtEOF ELSE StdinContent)
    ELSE FileSystem(inputs[i])

\* The values the inputs from the i-th on hold for K, in the order of the flags.
RECURSIVE ConfigFrom(_, _)
ConfigFrom(K, i) ==
    IF i > Len(inputs) THEN <<>>
    ELSE LET y == Yield(i)
             sel == SelectSeq(y.pairs, LAMBDA q : q[1] = K)
         IN  (IF y.readErr THEN <<>> ELSE [j \in 1..Len(sel) |-> sel[j][2]])
             \o ConfigFrom(K, i + 1)

ConfigFor(K) == ConfigFrom(K, 1)

ConfigKeys == {K \in {<<"X">>, <<"Y">>} : ConfigFor(K) # <<>>}

\* The import spec m selects the ambient variable K.
Selects(m, K) ==
    IF ContainsAny(m, {"*", "?"})
    THEN LET pat == compileWildcard(m) IN
         IF pat.err THEN m = K ELSE MatchString(pat, K)
    ELSE m = K

Selected(K) == \E i \in 1..Len(imports) : Selects(imports[i], K)

\* The ambient environment is a source of K in this run.
AmbientGives(K) ==
    K \in DOMAIN current /\ ((~clean /\ imports = <<>>) \/ Selected(K))

\* Every name any source may supply.
AllKeys == AssignedKeys \cup ConfigKeys \cup DOMAIN current

\* The serialised list has been compiled and sorted.
Compiled == pc \in {"dispatch", "exec", "exit", "replaced"}

\* Both merge stages of main.go:143-158 are over.
Merged == pc = "compile" \/ Compiled

\* The entries of the serialised list for the key K.
Entries(K) ==
    {i \in 1..Len(env) :
        Len(env[i]) > Len(K) /\ SubSeq(env[i], 1, Len(K)) = K /\ env[i][Len(K) + 1] = "="}

\* The serialised list holds K once, as K=v.
Serialized(K, v) ==
    /\ Cardinality(Entries(K)) = 1
    /\ \A i \in Entries(K) : env[i] = K \o <<"=">> \o v

IsPrefix(s, t) == Len(s) <= Len(t) /\ SubSeq(t, 1, Len(s)) = s

IsSuffix(s, t) == Len(s) <= Len(t) /\ SubSeq(t, Len(t) - Len(s) + 1, Len(t)) = s

\* C1: with -L off, a key with one -e value a and one config value c and no
\* ambient value is serialised as K=c when only the last value is kept and as
\* K=a when the first is kept.
C1_AssignmentThenConfig ==
    (Compiled /\ ~configLast /\ dropRepeats) =>
        \A K \in AllKeys :
            (Len(AssignedFor(K)) = 1 /\ Len(ConfigFor(K)) = 1 /\ ~AmbientGives(K)) =>
                Serialized(K, IF keepFirst THEN AssignedFor(K)[1] ELSE ConfigFor(K)[1])

C1_Witness ==
    /\ Compiled /\ ~configLast /\ dropRepeats /\ ~keepFirst
    /\ assigned = << <<"X", "=", "1">> >>
    /\ ConfigFor(<<"X">>) = << <<"2">> >>
    /\ ~AmbientGives(<<"X">>)
    /\ Serialized(<<"X">>, <<"2">>)

\* C2: every -e assignment is accumulated: in clean mode without imports and
\* files a key holds all the values assigned to it, in command-line order, and
\* with repeats kept it is serialised as their join.
C2_AllAssignmentsKept ==
    (Merged /\ clean /\ imports = <<>> /\ inputs = <<>>) =>
        \A K \in AssignedKeys :
            /\ Get(values, K) = AssignedFor(K)
            /\ (Compiled /\ ~dropRepeats) => Serialized(K, Join(AssignedFor(K), sep))

\* C3: with -L set and the last value kept, a key that a config file and the
\* environment (ambient or -e) both supply is serialised with a config file's value.
C3_ConfigWinsUnderL ==
    (Compiled /\ configLast /\ dropRepeats /\ ~keepFirst) =>
        \A K \in AllKeys :
            (ConfigFor(K) # <<>> /\ (AssignedFor(K) # <<>> \/ AmbientGives(K))) =>
                \E j \in 1..Len(ConfigFor(K)) : Serialized(K, ConfigFor(K)[j])

\* C4: once an import spec is given, with or without -i, the ambient
\* environment supplies only the variables an import spec selects: every
\* accumulated key is assigned, configured or selected, a key that is not
\* selected holds no more values than -e and the files give it, and an ambient
\* variable with no source is absent from the serialised list.
C4_OnlyImportsFromAmbient ==
    imports # <<>> =>
        /\ \A K \in DOMAIN values :
              /\ K \in AssignedKeys \cup ConfigKeys \/ (K \in DOMAIN current /\ Selected(K))
              /\ ~Selected(K) => Len(values[K]) <= Len(AssignedFor(K)) + Len(ConfigFor(K))
        /\ Compiled =>
              \A K \in DOMAIN current :
                  (~Selected(K) /\ K \notin AssignedKeys \cup ConfigKeys) => Entries(K) = {}

C4_Witness ==
    /\ Compiled /\ ~clean
    /\ imports = << <<"X">> >>
    /\ assigned = <<>> /\ inputs = <<>>
    /\ DOMAIN current = {<<"X">>, <<"X", "Y">>, <<"Y">>}
    /\ values = (<<"X">> :> << <<"0">> >>)

\* C5: a literal import spec leaves the accumulator as it is when its key is
\* already populated.
C5_LiteralSkipsPopulated ==
    [][(/\ pc = "ambient" /\ ~copyCurrent /\ impIdx <= Len(imports)
        /\ ~ContainsAny(imports[impIdx], {"*", "?"})
        /\ imports[impIdx] \in DOMAIN values) => values' = values]_vars

\* C6: the matcher built by compileWildcard accepts a candidate exactly when
\* the whole candidate matches the pattern under the rules of the wildcard syntax.
C6_MatcherAgreesWithRules ==
    matched # "none" => (matched = "yes") = RefMatch(splat, cand)

\* C7: exit status 0 comes with no positional argument, the list printed and
\* no lookup; 127 with a failed lookup and no replacement attempt; 126 with a
\* replacement attempted after a lookup and failed; 1 only with a replacement
\* call that returned without error.
C7_ExitByFirstFailure ==
    /\ exitCode \in {-1, 0, 1, 126, 127}
    /\ (pc = "exit") = (exitCode # -1)
    /\ exitCode = 0 => argv = <<>> /\ calls = <<>> /\ stdout = env
    /\ (pc = "exit" /\ argv = <<>>) => exitCode = 0
    /\ exitCode = 127 => argv # <<>> /\ calls = <<"LookPath">>
    /\ (pc = "exit" /\ calls = <<"LookPath">>) => exitCode = 127
    /\ exitCode = 126 =>
          argv # <<>> /\ calls = <<"LookPath", "Exec">> /\ diag[Len(diag)][1] = "exec"
    /\ exitCode = 1 =>
          argv # <<>> /\ calls = <<"LookPath", "Exec">> /\ diag[Len(diag)][1] = "running"
    /\ pc = "replaced" => exitCode = -1 /\ calls = <<"LookPath", "Exec">>
    /\ exitCode # 0 => stdout = <<>>

C7_Witness ==
    pc = "exit" /\ exitCode = 126 /\ calls = <<"LookPath", "Exec">> /\ env # <<>>

\* The order a reference run ranges over a map with key set S in.
Canon(S) == CHOOSE o \in Orders(S) : TRUE

\* The accumulator of a reference run after the import specs from the i-th on.
RECURSIVE RefImports(_, _)
RefImports(v, i) ==
    IF i > Len(imports) THEN v
    ELSE RefImports(copyImport(v, current, imports[i], Canon(DOMAIN current)).dst, i + 1)

\* ... after the environment merge.
RefEnvMerge(v) ==
    LET src == parseEnv(assigned)
        v1 == copyValues(v, src, Canon(DOMAIN src))
    IN  IF copyCurrent THEN copyValues(v1, current, Canon(DOMAIN current))
        ELSE RefImports(v1, 1)

\* ... after the inputs from the i-th on.
RECURSIVE RefFiles(_, _)
RefFiles(v, i) ==
    IF i > Len(inputs) THEN v
    ELSE RefFiles(importConfigFile(v, inputs[i], Yield(i)).dst, i + 1)

RefValues ==
    IF configLast THEN RefEnvMerge(RefFiles(EmptyMap, 1))
    ELSE RefFiles(RefEnvMerge(EmptyMap), 1)

RefEnv ==
    sortStrings(compileEnv(RefValues, Canon(DOMAIN RefValues), dropRepeats, keepFirst, sep))

\* C8: the output is a function of the inputs: whatever orders the maps were
\* ranged over in, the accumulator and the serialised list are those of the
\* reference run on the same inputs.
C8_OutputDetermined ==
    /\ Merged => values = RefValues
    /\ Compiled => env = RefEnv

C8_Witness ==
    /\ Compiled
    /\ Len(env) = 3
    /\ \E i \in 1..Len(imports) : ContainsAny(imports[i], {"*", "?"})
    /\ assigned # <<>> /\ inputs # <<>>

\* C9: every step keeps every key of the accumulator, and the values a key
\* held before the step are a prefix of those it holds after it.
C9_AppendOnly ==
    [][\A K \in DOMAIN values : K \in DOMAIN values' /\ IsPrefix(values[K], values'[K])]_vars

C9_Witness ==
    /\ Merged /\ ~configLast
    /\ assigned # <<>>
    /\ imports = << <<"X", "*">> >>
    /\ <<"X">> \in DOMAIN current
    /\ values[<<"X">>][1] = ValOf(assigned[Len(assigned)])
    /\ <<"X", "Y">> \in DOMAIN values

\* C10: a read or parse failure stops nothing: once the merges are over every
\* input has had its turn, no exit status was set on the way, each key holds
\* the values of the readable inputs in the order of the flags (and nothing
\* from an unreadable one) after or before those of the environment merge as
\* -L says, and every assigned key is there.
C10_FailedInputSkipped ==
    /\ ~Merged => exitCode = -1
    /\ Merged =>
          /\ fileIdx = Len(inputs) + 1 \/ inputs = <<>>
          /\ \A i \in 1..Len(inputs) :
                /\ Yield(i).readErr => \E j \in 1..Len(diag) : diag[j] = <<"read", inputs[i]>>
                /\ Yield(i).parseErr => \E j \in 1..Len(diag) : diag[j] = <<"parse", inputs[i]>>
          /\ \A K \in AllKeys :
                /\ IF configLast THEN IsPrefix(ConfigFor(K), Get(values, K))
                   ELSE IsSuffix(ConfigFor(K), Get(values, K))
                /\ K \in AssignedKeys =>
                      Len(Get(values, K)) > Len(ConfigFor(K))
                /\ K \notin AssignedKeys /\ ~AmbientGives(K) =>
                      Get(values, K) = ConfigFor(K)

C10_Witness ==
    /\ Compiled
    /\ inputs = <<"bad.ini", "a.ini">>
    /\ assigned = << <<"X", "=", "1">> >>
    /\ diag = << <<"read", "bad.ini">> >>
    /\ values[<<"X">>] = << <<"1">>, <<"2">> >>

\* The environment merge of main.go:134-141 is over.
EnvMerged == IF configLast THEN Merged ELSE pc \notin {"assigned", "ambient"}

\* The ambient environment is copied wholesale, and K has a -e value and an
\* ambient value.
WholesaleBoth(K) ==
    ~clean /\ imports = <<>> /\ K \in AssignedKeys /\ K \in DOMAIN current

\* In the values of K a value assigned with -e comes right before the ambient one.
AssignedThenAmbient(K) ==
    \E i \in 1..(Len(values[K]) - 1) :
        /\ \E j \in 1..Len(AssignedFor(K)) : values[K][i] = AssignedFor(K)[j]
        /\ values[K][i + 1] = current[K]
        /\ i = (IF configLast THEN Len(ConfigFor(K)) ELSE 0) + 1

\* The serialised list holds K once, with a value assigned with -e.
SerializedAssigned(K) ==
    \E j \in 1..Len(AssignedFor(K)) : Serialized(K, AssignedFor(K)[j])

\* C11 as stated: under a wholesale copy the -e value of a key comes before its
\* ambient value; with repeats dropped the first-kept value is the assigned
\* one, and the last-kept value is the ambient one when no file adds a later value.
C11_AsStated ==
    \A K \in AllKeys :
        (WholesaleBoth(K) /\ EnvMerged) =>
            /\ K \in DOMAIN values /\ AssignedThenAmbient(K)
            /\ (Compiled /\ dropRepeats /\ keepFirst) => SerializedAssigned(K)
            /\ (Compiled /\ dropRepeats /\ ~keepFirst
                    /\ (configLast \/ ConfigFor(K) = <<>>)) =>
                  Serialized(K, current[K])

\* C11, amended: as above, the first-kept value being the assigned one when
\* no file adds an earlier value (-L off, or no file holding the key).
C11_AssignedBeforeAmbient ==
    \A K \in AllKeys :
        (WholesaleBoth(K) /\ EnvMerged) =>
            /\ K \in DOMAIN values /\ AssignedThenAmbient(K)
            /\ (Compiled /\ dropRepeats /\ keepFirst
                    /\ (~configLast \/ ConfigFor(K) = <<>>)) =>
                  SerializedAssigned(K)
            /\ (Compiled /\ dropRepeats /\ ~keepFirst
                    /\ (configLast \/ ConfigFor(K) = <<>>)) =>
                  Serialized(K, current[K])

C11_Witness ==
    /\ Compiled /\ dropRepeats /\ ~keepFirst
    /\ WholesaleBoth(<<"X">>)
    /\ assigned = << <<"X", "=", "1">> >>
    /\ inputs = <<>>
    /\ values[<<"X">>] = << <<"1">>, <<"0">> >>
    /\ Serialized(<<"X">>, <<"0">>)

====
